---- MODULE Spec2Model ----
(***************************************************************************)
(* Model of the elogrus hook (hook.go): construction of an ElasticHook     *)
(* against an Elasticsearch backend (index existence check and creation),  *)
(* and the hook's operations Fire (synchronous and asynchronous), Levels,  *)
(* Cancel, SetMessageCreator and GetHost.                                  *)
(*                                                                         *)
(* The backend client and the index-name function are the environment:     *)
(* the backend answers every request nondeterministically, and a dynamic   *)
(* index-name function changes its result from time to time.               *)
(***************************************************************************)
EXTENDS Naturals, Sequences, FiniteSets, TLC

VARIABLES
    pc,        \* position of the constructor: "start", "IndexExists", "CreateIndex", "returned"
    local,     \* the constructor's parameters and its local variable levels
    ctxDone,   \* whether the context made by context.WithCancel has been cancelled
    requests,  \* the index requests the constructor has issued, with the backend's replies
    hooks,     \* the heap of ElasticHook objects; a *ElasticHook is an index into it, 0 is nil
    ret,       \* what the constructor returned: (*ElasticHook, error)
    current,   \* the name a caller's dynamic index-name function returns at present
    calls,     \* the Fire calls made so far, each with its position and its return value
    writes,    \* the document writes issued to the backend, in the order the backend saw them
    cancelled  \* whether Cancel() has been called

vars == <<pc, local, ctxDone, requests, hooks, ret, current, calls, writes, cancelled>>

----------------------------------------------------------------------------
(* Bounds of the model *)

\* how many Fire calls the caller makes
MaxFires == 2

\* how many Fire calls the caller makes when it logs records of every shape
MaxRecords == 1

----------------------------------------------------------------------------
(* Values *)

\* logrus.Level ordinals
PanicLevel == 0
FatalLevel == 1
ErrorLevel == 2
WarnLevel == 3
InfoLevel == 4
DebugLevel == 5

\* the slice literal the constructor ranges over
AllLevels == <<PanicLevel, FatalLevel, ErrorLevel, WarnLevel, InfoLevel, DebugLevel>>

\* the nil error
NoErr == "nil"

\* the package's sentinel error
ErrCannotCreateIndex == "Cannot create index"

\* the errors the backend client can answer with; the client library knows
\* nothing of this package, so the sentinel is not among them
BackendErrors == {"backend error 1", "backend error 2"}

\* the errors the backend client can answer a document write with
WriteErrors == {"write error 1", "write error 2"}

\* host labels
Hosts == {"host1"}

\* the index names in use
IndexNames == {"logs-1", "logs-2"}

\* type IndexNameFunc func() string: either the constant closure that
\* NewElasticHook and NewAsyncElasticHook build around their index argument,
\* or a caller's function whose result changes over time (a name that embeds
\* the date, say)
ConstIndexFunc(index) == [index |-> index, kind |-> "const"]

DynamicIndexFunc == [index |-> "", kind |-> "dynamic"]

\* the result of invoking an IndexNameFunc
Call(indexFunc) ==
    IF indexFunc.kind = "const" THEN indexFunc.index ELSE current

\* the message creators: the default one and one a caller installs
DefaultCreator == "defaultMessageCreator"

CustomCreator == "custom"

----------------------------------------------------------------------------
(* Construction *)

\* the mutation of EnabledLevels that compares with < instead of <=
EnabledLevels_Strict(level) ==
    SelectSeq(AllLevels, LAMBDA l : l < level)

\* the loop of the constructor: the levels l of the literal, in its order,
\* with l <= level
EnabledLevels(level) ==
    SelectSeq(AllLevels, LAMBDA l : l <= level)

\* the zero value of *ElasticHook and error before the constructor returns
NoReturn == [hook |-> 0, err |-> NoErr]

\* the constructor is entered: its parameters are bound, levels is computed
\* and the context is made, not cancelled
newHookFuncAndFireFunc(host, level, indexFunc, fireFunc) ==
    /\ pc = "start"
    /\ local' = [host |-> host, level |-> level, indexFunc |-> indexFunc,
                 fireFunc |-> fireFunc, levels |-> EnabledLevels(level)]
    /\ ctxDone' = FALSE
    /\ pc' = "IndexExists"
    /\ UNCHANGED <<requests, hooks, ret, current, calls, writes, cancelled>>

NewElasticHook ==
    \E host \in Hosts, level \in PanicLevel..DebugLevel, index \in IndexNames :
        newHookFuncAndFireFunc(host, level, ConstIndexFunc(index), "syncFireFunc")

NewAsyncElasticHook ==
    \E host \in Hosts, level \in PanicLevel..DebugLevel, index \in IndexNames :
        newHookFuncAndFireFunc(host, level, ConstIndexFunc(index), "asyncFireFunc")

NewElasticHookWithFunc ==
    \E host \in Hosts, level \in PanicLevel..DebugLevel :
        newHookFuncAndFireFunc(host, level, DynamicIndexFunc, "syncFireFunc")

NewAsyncElasticHookWithFunc ==
    \E host \in Hosts, level \in PanicLevel..DebugLevel :
        newHookFuncAndFireFunc(host, level, DynamicIndexFunc, "asyncFireFunc")

\* the return of the hook: the object is allocated with the constructor's
\* values and the default message creator, and its address is returned
ReturnHook ==
    /\ hooks' = Append(hooks, [host |-> local.host,
                               index |-> local.indexFunc,
                               levels |-> local.levels,
                               fireFunc |-> local.fireFunc,
                               messageCreator |-> DefaultCreator])
    /\ ret' = [hook |-> Len(hooks) + 1, err |-> NoErr]
    /\ ctxDone' = ctxDone
    /\ pc' = "returned"

\* the mutation of ExistsFailed that forgets cancel()
ExistsFailed_NoCancel(err) ==
    /\ ctxDone' = ctxDone
    /\ ret' = [hook |-> 0, err |-> err]
    /\ hooks' = hooks
    /\ pc' = "returned"

\* the existence query failed: cancel() and return nil, err
ExistsFailed(err) ==
    /\ ctxDone' = TRUE
    /\ ret' = [hook |-> 0, err |-> err]
    /\ hooks' = hooks
    /\ pc' = "returned"

\* the mutation of CreateFailed that returns the sentinel for every failure
CreateFailed_Sentinel(err) ==
    /\ ctxDone' = TRUE
    /\ ret' = [hook |-> 0, err |-> ErrCannotCreateIndex]
    /\ hooks' = hooks
    /\ pc' = "returned"

\* the create request failed: cancel() and return nil, err
CreateFailed(err) ==
    /\ ctxDone' = TRUE
    /\ ret' = [hook |-> 0, err |-> err]
    /\ hooks' = hooks
    /\ pc' = "returned"

\* the mutation of NotAcknowledged that does not look at Acknowledged
NotAcknowledged_Ignored == ReturnHook

\* the create request was not acknowledged: cancel() and return
\* nil, ErrCannotCreateIndex
NotAcknowledged ==
    /\ ctxDone' = TRUE
    /\ ret' = [hook |-> 0, err |-> ErrCannotCreateIndex]
    /\ hooks' = hooks
    /\ pc' = "returned"

\* the mutation of NeedsCreate that creates the index whatever the answer
NeedsCreate_Always(exists) == TRUE

\* if !exists
NeedsCreate(exists) == ~exists

\* what IndexExists(...).Do(ctx) can answer: an error, or whether the index exists
ExistsReplies ==
    [err : {NoErr}, exists : BOOLEAN] \cup [err : BackendErrors, exists : {FALSE}]

\* what CreateIndex(...).Do(ctx) can answer: an error, or whether the
\* creation was acknowledged
CreateReplies ==
    [err : {NoErr}, acknowledged : BOOLEAN] \cup [err : BackendErrors, acknowledged : {FALSE}]

\* the existence query for indexFunc(), and what follows from its answer
IndexExists ==
    /\ pc = "IndexExists"
    /\ \E reply \in ExistsReplies :
        /\ requests' = Append(requests, [op |-> "IndexExists",
                                         index |-> Call(local.indexFunc),
                                         err |-> reply.err,
                                         ok |-> reply.exists])
        /\ IF reply.err # NoErr
             THEN ExistsFailed(reply.err)
             ELSE IF NeedsCreate(reply.exists)
                    THEN /\ pc' = "CreateIndex"
                         /\ UNCHANGED <<ctxDone, hooks, ret>>
                    ELSE ReturnHook
    /\ UNCHANGED <<local, current, calls, writes, cancelled>>

\* the create request for indexFunc(), and what follows from its answer
CreateIndex ==
    /\ pc = "CreateIndex"
    /\ \E reply \in CreateReplies :
        /\ requests' = Append(requests, [op |-> "CreateIndex",
                                         index |-> Call(local.indexFunc),
                                         err |-> reply.err,
                                         ok |-> reply.acknowledged])
        /\ IF reply.err # NoErr
             THEN CreateFailed(reply.err)
             ELSE IF ~reply.acknowledged
                    THEN NotAcknowledged
                    ELSE ReturnHook
    /\ UNCHANGED <<local, current, calls, writes, cancelled>>

----------------------------------------------------------------------------
(* Log records and documents *)

\* the values a field of entry.Data can hold: no such key, nil, an error
\* with a message, a string
Absent == [type |-> "absent", val |-> ""]

NilValue == [type |-> "nil", val |-> ""]

ErrorValue(msg) == [type |-> "error", val |-> msg]

StringValue(str) == [type |-> "string", val |-> str]

\* a *logrus.Entry: Data is the map of fields, "error" being logrus.ErrorKey
Entry(level, message, errorField) ==
    [Level |-> level, Message |-> message, Time |-> "t",
     Data |-> [error |-> errorField, request |-> StringValue("r")]]

\* the records the caller logs
SampleEntries ==
    { Entry(ErrorLevel, "failed", ErrorValue("boom")),
      Entry(InfoLevel, "started", Absent) }

\* the records of every shape: each level, with each kind of value under
\* logrus.ErrorKey
Records ==
    { Entry(level, "m", errorField) :
        level \in PanicLevel..DebugLevel,
        errorField \in {Absent, NilValue, ErrorValue("boom"), StringValue("text")} }

\* logrus's Level.String()
LevelString(level) ==
    <<"panic", "fatal", "error", "warning", "info", "debug">>[level + 1]

\* the mutation of ToUpper that leaves the name as it is
ToUpper_Identity(str) == str

\* strings.ToUpper on the level names
ToUpper(str) ==
    CASE str = "panic" -> "PANIC"
      [] str = "fatal" -> "FATAL"
      [] str = "error" -> "ERROR"
      [] str = "warning" -> "WARNING"
      [] str = "info" -> "INFO"
      [] str = "debug" -> "DEBUG"
      [] OTHER -> str

\* entry.Time.UTC().Format(time.RFC3339Nano)
FormatTime(t) == <<"RFC3339Nano", "UTC", t>>

\* the mutation of Normalized that leaves the error value in the record
Normalized_Skip(entry) == entry

\* the mutation of Normalized that turns every value under logrus.ErrorKey
\* into a string, without the test for nil and the type assertion
Normalized_Sprint(entry) ==
    IF entry.Data.error.type # "absent"
      THEN [entry EXCEPT !.Data.error = StringValue(entry.Data.error.val)]
      ELSE entry

\* the start of syncFireFunc: an error value under logrus.ErrorKey is
\* replaced by its message; the entry is changed in place
Normalized(entry) ==
    IF entry.Data.error.type = "error"
      THEN [entry EXCEPT !.Data.error = StringValue(entry.Data.error.val)]
      ELSE entry

\* the document the default message creator builds
defaultMessageCreator(entry, h) ==
    [Host |-> hooks[h].host,
     Timestamp |-> FormatTime(entry.Time),
     Message |-> entry.Message,
     Data |-> entry.Data,
     Level |-> ToUpper(LevelString(entry.Level))]

\* the document a caller's message creator builds
customMessageCreator(entry, h) ==
    [Text |-> entry.Message, Fields |-> entry.Data]

\* the mutation of messageCreator that ignores the creator installed
messageCreator_Default(entry, h) == defaultMessageCreator(entry, h)

\* hook.messageCreator(entry, hook)
messageCreator(entry, h) ==
    IF hooks[h].messageCreator = DefaultCreator
      THEN defaultMessageCreator(entry, h)
      ELSE customMessageCreator(entry, h)

----------------------------------------------------------------------------
(* The hook's operations *)

\* the hook the constructor returned is in the caller's hands
Ready == pc = "returned" /\ ret.hook # 0

\* the mutation of CallerIdle that lets callers be inside Fire at once
CallerIdle_Always == TRUE

\* the caller is not inside Fire
CallerIdle == \A k \in 1..Len(calls) : calls[k].returned

\* the mutation of WriteIndex that takes the index name Fire passed
WriteIndex_Passed(h, indexName) == indexName

\* the mutation of WriteIndex that keeps the name resolved at construction
WriteIndex_Cached(h, indexName) == requests[1].index

\* Index(hook.index()): the index a write goes to is asked of the index
\* function when the write is built; the indexName parameter is not used
WriteIndex(h, indexName) == Call(hooks[h].index)

\* the mutation of WriteContext that passes a fresh background context
WriteContext_Background == FALSE

\* Do(hook.ctx): the state of the hook's context when the write is issued
WriteContext == ctxDone

\* the write syncFireFunc builds for call k: the document of the normalized
\* entry, to the index of the moment, under the hook's context. err is the
\* backend's answer, "pending" until it comes; current and cancelled record
\* the moment: what a dynamic index function returns, whether Cancel() has
\* been called
Write(k, h) ==
    [call |-> k,
     index |-> WriteIndex(h, calls[k].indexName),
     doc |-> messageCreator(Normalized(calls[k].entry), h),
     ctxDone |-> WriteContext,
     err |-> "pending",
     current |-> current,
     cancelled |-> cancelled]

\* a call of Fire at the entry of its fire function: the record given and
\* its present state, the index name Fire passed, where the call is, whether
\* Fire has returned and what, and whether Cancel() had been called before
EnterFireFunc(entry, indexName, returned) ==
    [given |-> entry,
     entry |-> entry,
     indexName |-> indexName,
     at |-> "syncFireFunc",
     returned |-> returned,
     err |-> NoErr,
     cancelled |-> cancelled]

\* the mutation of asyncFireFunc that runs syncFireFunc in the caller
asyncFireFunc_Wait(entry, h, indexName) ==
    EnterFireFunc(entry, Call(hooks[h].index), FALSE)

\* asyncFireFunc: the go statement evaluates hook.index() in the caller and
\* starts a goroutine that will run syncFireFunc; Fire returns nil
asyncFireFunc(entry, h, indexName) ==
    EnterFireFunc(entry, Call(hooks[h].index), TRUE)

\* Fire: hook.fireFunc(entry, hook, hook.index()). In a synchronous hook the
\* caller enters syncFireFunc and has not returned
Fire ==
    /\ Ready
    /\ CallerIdle
    /\ Len(calls) < MaxFires
    /\ \E entry \in SampleEntries :
        LET h == ret.hook
            indexName == Call(hooks[h].index)
        IN  calls' = Append(calls,
                        IF hooks[h].fireFunc = "syncFireFunc"
                          THEN EnterFireFunc(entry, indexName, FALSE)
                          ELSE asyncFireFunc(entry, h, indexName))
    /\ UNCHANGED <<pc, local, ctxDone, requests, hooks, ret, current, writes, cancelled>>

\* Fire, with a record of any shape; the call is kept with the message
\* creator the hook held when Fire was called
FireRecord ==
    /\ Ready
    /\ CallerIdle
    /\ Len(calls) < MaxRecords
    /\ \E entry \in Records :
        LET h == ret.hook
            indexName == Call(hooks[h].index)
            call == IF hooks[h].fireFunc = "syncFireFunc"
                      THEN EnterFireFunc(entry, indexName, FALSE)
                      ELSE asyncFireFunc(entry, h, indexName)
        IN  calls' = Append(calls, call @@ [messageCreator |-> hooks[h].messageCreator])
    /\ UNCHANGED <<pc, local, ctxDone, requests, hooks, ret, current, writes, cancelled>>

\* syncFireFunc, in the caller or in a goroutine, up to the write's Do: the
\* entry is normalized in place, the document is built and the write issued
syncFireFunc ==
    \E k \in 1..Len(calls) :
        /\ calls[k].at = "syncFireFunc"
        /\ calls' = [calls EXCEPT ![k].entry = Normalized(@), ![k].at = "Do"]
        /\ writes' = Append(writes, Write(k, ret.hook))
        /\ UNCHANGED <<pc, local, ctxDone, requests, hooks, ret, current, cancelled>>

\* the mutation of SyncReturn that drops the error
SyncReturn_Nil(call, err) ==
    [call EXCEPT !.at = "done", !.returned = TRUE, !.err = NoErr]

\* return err, in the caller: Fire returns what the write returned
SyncReturn(call, err) ==
    [call EXCEPT !.at = "done", !.returned = TRUE, !.err = err]

\* the mutation of GoReturn that hands the error to the call's result
GoReturn_Surfaced(call, err) == [call EXCEPT !.at = "done", !.err = err]

\* return err, in a goroutine: nobody reads it
GoReturn(call, err) == [call EXCEPT !.at = "done"]

\* the mutation of Do that runs syncFireFunc again when the write failed
Do_Retry ==
    \E i \in 1..Len(writes), err \in {NoErr} \cup WriteErrors :
        LET k == writes[i].call IN
        /\ writes[i].err = "pending"
        /\ writes' = [writes EXCEPT ![i].err = err]
        /\ calls' = [calls EXCEPT ![k] =
                        IF err # NoErr
                          THEN [@ EXCEPT !.at = "syncFireFunc"]
                          ELSE IF calls[k].returned
                                 THEN GoReturn(@, err)
                                 ELSE SyncReturn(@, err)]
        /\ UNCHANGED <<pc, local, ctxDone, requests, hooks, ret, current, cancelled>>

\* the backend answers a write; syncFireFunc returns the answer's error
Do ==
    \E i \in 1..Len(writes), err \in {NoErr} \cup WriteErrors :
        LET k == writes[i].call IN
        /\ writes[i].err = "pending"
        /\ writes' = [writes EXCEPT ![i].err = err]
        /\ calls' = [calls EXCEPT ![k] =
                        IF calls[k].returned
                          THEN GoReturn(@, err)
                          ELSE SyncReturn(@, err)]
        /\ UNCHANGED <<pc, local, ctxDone, requests, hooks, ret, current, cancelled>>

\* hook.levels
Levels(h) == hooks[h].levels

\* a call of Levels(): nothing changes
CallLevels ==
    /\ Ready
    /\ Levels(ret.hook) = Levels(ret.hook)
    /\ UNCHANGED vars

\* hook.host
GetHost(h) == hooks[h].host

\* a call of GetHost(): nothing changes
CallGetHost ==
    /\ Ready
    /\ GetHost(ret.hook) = GetHost(ret.hook)
    /\ UNCHANGED vars

\* the mutation of ctxCancel that makes a cancelled context live again
ctxCancel_Toggle(done) == ~done

\* the context's CancelFunc: the context is cancelled from now on, whatever
\* it was before
ctxCancel(done) == TRUE

\* hook.ctxCancel()
Cancel ==
    /\ Ready
    /\ ctxDone' = ctxCancel(ctxDone)
    /\ cancelled' = TRUE
    /\ UNCHANGED <<pc, local, requests, hooks, ret, current, calls, writes>>

\* the mutation of SetMessageCreator that resets the hook's levels as well
SetMessageCreator_Levels ==
    /\ Ready
    /\ \E fn \in {DefaultCreator, CustomCreator} :
        hooks' = [hooks EXCEPT ![ret.hook].messageCreator = fn,
                               ![ret.hook].levels = <<>>]
    /\ UNCHANGED <<pc, local, ctxDone, requests, ret, current, calls, writes, cancelled>>

\* hook.messageCreator = fn
SetMessageCreator ==
    /\ Ready
    /\ \E fn \in {DefaultCreator, CustomCreator} :
        hooks' = [hooks EXCEPT ![ret.hook].messageCreator = fn]
    /\ UNCHANGED <<pc, local, ctxDone, requests, ret, current, calls, writes, cancelled>>

----------------------------------------------------------------------------
(* The environment *)

\* a dynamic index-name function returns another name from now on
Rotate ==
    /\ pc # "start"
    /\ local.indexFunc.kind = "dynamic"
    /\ \E index \in IndexNames \ {current} : current' = index
    /\ UNCHANGED <<pc, local, ctxDone, requests, hooks, ret, calls, writes, cancelled>>

----------------------------------------------------------------------------
(* Construction: from the call of a constructor to its return *)

InitNew ==
    /\ pc = "start"
    /\ local = [host |-> "", level |-> PanicLevel, indexFunc |-> DynamicIndexFunc,
                fireFunc |-> "syncFireFunc", levels |-> <<>>]
    /\ ctxDone = FALSE
    /\ requests = <<>>
    /\ hooks = <<>>
    /\ ret = NoReturn
    /\ current \in IndexNames
    /\ calls = <<>>
    /\ writes = <<>>
    /\ cancelled = FALSE

NextNew ==
    \/ NewElasticHook
    \/ NewAsyncElasticHook
    \/ NewElasticHookWithFunc
    \/ NewAsyncElasticHookWithFunc
    \/ IndexExists
    \/ CreateIndex
    \/ Rotate

SpecNew == InitNew /\ [][NextNew]_vars

----------------------------------------------------------------------------
(* The hook in use: from a constructor's successful return on *)

\* the minimum levels of the hooks in use
UsedLevels == {WarnLevel}

\* the index names the hooks in use were built with
UsedIndexNames == {"logs-1"}

\* a constructor with these parameters found the index present and returned
\* the hook
Returned(host, level, index, indexFunc, fireFunc) ==
    /\ pc = "returned"
    /\ local = [host |-> host, level |-> level, indexFunc |-> indexFunc,
                fireFunc |-> fireFunc, levels |-> EnabledLevels(level)]
    /\ ctxDone = FALSE
    /\ requests = <<[op |-> "IndexExists", index |-> index,
                     err |-> NoErr, ok |-> TRUE]>>
    /\ hooks = <<[host |-> host, index |-> indexFunc,
                  levels |-> EnabledLevels(level), fireFunc |-> fireFunc,
                  messageCreator |-> DefaultCreator]>>
    /\ ret = [hook |-> 1, err |-> NoErr]
    /\ current = index
    /\ calls = <<>>
    /\ writes = <<>>
    /\ cancelled = FALSE

\* a hook built by NewElasticHook or NewAsyncElasticHook, around a constant
\* index name, under all its operations
Init ==
    \E host \in Hosts, level \in UsedLevels, index \in UsedIndexNames,
       fireFunc \in {"syncFireFunc", "asyncFireFunc"} :
        Returned(host, level, index, ConstIndexFunc(index), fireFunc)

Next ==
    \/ Fire
    \/ syncFireFunc
    \/ Do
    \/ CallLevels
    \/ CallGetHost
    \/ Cancel
    \/ SetMessageCreator

Spec == Init /\ [][Next]_vars

\* a hook built by NewElasticHookWithFunc or NewAsyncElasticHookWithFunc,
\* around a dynamic index function, under the operations that invoke the
\* function. Cancel and SetMessageCreator neither invoke it nor change what it
\* returns, nor does the index of a write depend on what they change.
InitWithFunc ==
    \E host \in Hosts, level \in UsedLevels, index \in UsedIndexNames,
       fireFunc \in {"syncFireFunc", "asyncFireFunc"} :
        Returned(host, level, index, DynamicIndexFunc, fireFunc)

NextWithFunc ==
    \/ Fire
    \/ syncFireFunc
    \/ Do
    \/ Rotate

SpecWithFunc == InitWithFunc /\ [][NextWithFunc]_vars

\* a hook built around a constant index name, given records of every shape
NextRecords ==
    \/ FireRecord
    \/ syncFireFunc
    \/ Do
    \/ SetMessageCreator

SpecRecords == Init /\ [][NextRecords]_vars

----------------------------------------------------------------------------
(* Properties of construction, checked under SpecNew *)

\* the constructor has returned
Returns == pc = "returned"

\* the backend's answers let construction go through: the existence query
\* succeeded, and the index exists or its creation succeeded and was
\* acknowledged
IndexEnsured ==
    /\ Len(requests) >= 1
    /\ requests[1].op = "IndexExists"
    /\ requests[1].err = NoErr
    /\ \/ requests[1].ok
       \/ /\ Len(requests) >= 2
          /\ requests[2].op = "CreateIndex"
          /\ requests[2].err = NoErr
          /\ requests[2].ok

\* the last request the constructor issued
LastRequest == requests[Len(requests)]

\* C1: the constructor returns a hook and a nil error exactly when the
\* existence query succeeded and the index exists or its creation succeeded
\* with acknowledged = true; in every other case it returns a nil hook and a
\* non-nil error. A hook that is returned is fully initialized from the
\* constructor's parameters and its context is not cancelled.
C1_HookIffIndexEnsured ==
    Returns =>
        /\ (ret.hook # 0 /\ ret.err = NoErr) <=> IndexEnsured
        /\ ~IndexEnsured => (ret.hook = 0 /\ ret.err # NoErr)
        /\ ret.hook # 0 =>
            /\ ret.hook \in 1..Len(hooks)
            /\ hooks[ret.hook] = [host |-> local.host,
                                  index |-> local.indexFunc,
                                  levels |-> local.levels,
                                  fireFunc |-> local.fireFunc,
                                  messageCreator |-> DefaultCreator]
            /\ ~ctxDone

\* C1's case: the index was absent, its creation was acknowledged, and the
\* constructor returned a hook
C1_Witness ==
    /\ Returns
    /\ Len(requests) = 2
    /\ ~requests[1].ok
    /\ requests[2].ok
    /\ ret.hook # 0

C3_FailureCancelsContext ==
    (Returns /\ ret.hook = 0) => ctxDone

\* C3's case: the existence query failed and the constructor returned with
\* the context cancelled
C3_Witness ==
    /\ Returns
    /\ Len(requests) = 1
    /\ requests[1].err \in BackendErrors
    /\ ret.hook = 0
    /\ ctxDone

\* the create requests issued so far
CreateRequests == {i \in 1..Len(requests) : requests[i].op = "CreateIndex"}

\* C4: a create request is issued only after an existence query that
\* returned without error and reported the index absent; when the index is
\* reported present no create request is issued, and at most one is issued
\* per construction.
C4_CreateOnlyIfAbsent ==
    /\ Cardinality(CreateRequests) <= 1
    /\ \A i \in CreateRequests :
        /\ i = 2
        /\ requests[1].op = "IndexExists"
        /\ requests[1].err = NoErr
        /\ ~requests[1].ok
    /\ (Len(requests) >= 1 /\ requests[1].ok) => CreateRequests = {}

\* C4's case: the index was reported present and the constructor returned
\* having issued the existence query alone
C4_Witness ==
    /\ Returns
    /\ ret.hook # 0
    /\ Len(requests) = 1
    /\ requests[1].ok

\* the elements of a sequence
Range(seq) == {seq[i] : i \in 1..Len(seq)}

\* C5: for every threshold from Panic to Debug, Levels() of the hook built
\* is exactly the levels whose ordinal is at most the threshold's, each once.
C5_LevelsUpToThreshold ==
    (Returns /\ ret.hook # 0) =>
        LET levels == Levels(ret.hook) IN
        /\ local.level \in PanicLevel..DebugLevel
        /\ Range(levels) = {l \in PanicLevel..DebugLevel : l <= local.level}
        /\ Len(levels) = Cardinality(Range(levels))

\* C5's case: a hook built with threshold Warn, whose Levels() are Panic,
\* Fatal, Error and Warn
C5_Witness ==
    /\ Returns
    /\ ret.hook # 0
    /\ local.level = WarnLevel
    /\ Levels(ret.hook) = <<PanicLevel, FatalLevel, ErrorLevel, WarnLevel>>

----------------------------------------------------------------------------
(* Properties of the hook in use *)

\* the hook is synchronous, asynchronous
Synchronous == hooks[ret.hook].fireFunc = "syncFireFunc"

Asynchronous == hooks[ret.hook].fireFunc = "asyncFireFunc"

\* the writes issued for call k
WritesOf(k) == {i \in 1..Len(writes) : writes[i].call = k}

\* C6: in a synchronous hook, a Fire call that has returned has returned the
\* error the backend answered its write with: nil if the write succeeded,
\* the backend's error unchanged if it failed.
C6_SyncFireReturnsWriteError ==
    Synchronous =>
        \A k \in 1..Len(calls) :
            calls[k].returned =>
                \E i \in WritesOf(k) :
                    /\ writes[i].err # "pending"
                    /\ calls[k].err = writes[i].err

\* C6's case: a synchronous Fire whose write failed has returned that error
C6_Witness ==
    /\ Synchronous
    /\ \E k \in 1..Len(calls), i \in 1..Len(writes) :
        /\ writes[i].call = k
        /\ writes[i].err \in WriteErrors
        /\ calls[k].returned
        /\ calls[k].err = writes[i].err

\* C7: in an asynchronous hook, every Fire call returns nil, whatever the
\* backend answers and whether or not the hook was cancelled, and it has
\* returned as soon as it is made; the hook's state is what construction,
\* SetMessageCreator and Cancel made it, whatever the writes' outcomes.
C7_AsyncFireReturnsNil ==
    Asynchronous =>
        /\ \A k \in 1..Len(calls) : calls[k].returned /\ calls[k].err = NoErr
        /\ hooks[ret.hook] = [host |-> local.host,
                              index |-> local.indexFunc,
                              levels |-> local.levels,
                              fireFunc |-> local.fireFunc,
                              messageCreator |-> hooks[ret.hook].messageCreator]
        /\ ctxDone = cancelled

\* C7's case: the write of an asynchronous Fire made on a cancelled hook has
\* failed, and Fire returned nil
C7_Witness ==
    /\ Asynchronous
    /\ \E k \in 1..Len(calls), i \in 1..Len(writes) :
        /\ writes[i].call = k
        /\ writes[i].err \in WriteErrors
        /\ writes[i].ctxDone
        /\ calls[k].at = "done"
        /\ calls[k].err = NoErr

\* two Fire calls, the earlier first, with the writes issued for them
WrittenPairs ==
    {p \in (1..Len(calls)) \X (1..Len(calls)) \X (1..Len(writes)) \X (1..Len(writes)) :
        /\ p[1] < p[2]
        /\ writes[p[3]].call = p[1]
        /\ writes[p[4]].call = p[2]}

\* C8 as stated: for two Fire calls between which the index function's
\* result changes, the two writes go to two different index names, each the
\* name the index function returned at the time of its own Fire call.
C8_WritesFollowFireTime ==
    \A p \in WrittenPairs :
        calls[p[1]].indexName # calls[p[2]].indexName =>
            /\ writes[p[3]].index # writes[p[4]].index
            /\ writes[p[3]].index = calls[p[1]].indexName
            /\ writes[p[4]].index = calls[p[2]].indexName

\* C8 as amended: each write goes to the name the index function returns at
\* the moment syncFireFunc builds the write. In a synchronous hook that
\* moment lies inside the Fire call: a call that has returned has issued its
\* write. In an asynchronous hook it lies in the goroutine, after Fire has
\* returned.
C8_WritesFollowBuildTime ==
    /\ \A i \in 1..Len(writes) :
        writes[i].index = IF hooks[ret.hook].index.kind = "const"
                            THEN hooks[ret.hook].index.index
                            ELSE writes[i].current
    /\ Synchronous =>
        \A k \in 1..Len(calls) : calls[k].returned => WritesOf(k) # {}
    /\ Asynchronous =>
        \A i \in 1..Len(writes) : calls[writes[i].call].returned

\* C8's case: the index function's result changed between two Fire calls and
\* both writes are issued, to two different names
C8_Witness ==
    \E p \in WrittenPairs :
        /\ calls[p[1]].indexName # calls[p[2]].indexName
        /\ writes[p[3]].index # writes[p[4]].index

\* C9: once Cancel() has been called the hook's context is cancelled, in
\* every later state, whatever operations follow; a further Cancel() leaves
\* it cancelled.
C9_CancelIsPermanent ==
    [][(cancelled' => ctxDone') /\ (ctxDone => ctxDone')]_vars

\* C9's case: Cancel() has been called, a Fire call made after it has run to
\* its end, and the context is cancelled
C9_Witness ==
    /\ cancelled
    /\ ctxDone
    /\ \E k \in 1..Len(calls) : calls[k].cancelled /\ calls[k].at = "done"

\* C10: every write issued after Cancel() has been called carries a
\* cancelled context, be it the write of a Fire call made after Cancel() or
\* of a call made before it.
C10_WritesAfterCancelAreCancelled ==
    \A i \in 1..Len(writes) : writes[i].cancelled => writes[i].ctxDone

\* C10's case: an asynchronous Fire was made before Cancel() and its
\* goroutine issued the write after it, under the cancelled context
C10_Witness ==
    /\ Asynchronous
    /\ \E i \in 1..Len(writes) :
        /\ ~calls[writes[i].call].cancelled
        /\ writes[i].cancelled
        /\ writes[i].ctxDone

----------------------------------------------------------------------------
(* Properties of the records and the documents, checked under SpecRecords *)

\* the structured fields a document carries: Data in the default message
\* creator's document, Fields in the caller's
DocData(doc) == IF "Data" \in DOMAIN doc THEN doc.Data ELSE doc.Fields

\* a record of the given call held an error value under logrus.ErrorKey
GivenError(k) == calls[k].given.Data.error.type = "error"

\* C11: in both dispatch modes and with either message creator, no document
\* handed to a backend write carries an error value under "error": where the
\* record given to Fire held one, the document holds its message, a string.
C11_NoRawErrorInDocument ==
    \A i \in 1..Len(writes) :
        LET error == DocData(writes[i].doc).error IN
        /\ error.type # "error"
        /\ GivenError(writes[i].call) =>
               error = StringValue(calls[writes[i].call].given.Data.error.val)

\* C11's case: an asynchronous hook with the caller's message creator wrote
\* the record of an error "boom", and the document holds the string "boom"
C11_Witness ==
    /\ Asynchronous
    /\ \E i \in 1..Len(writes) :
        /\ GivenError(writes[i].call)
        /\ "Fields" \in DOMAIN writes[i].doc
        /\ writes[i].doc.Fields.error = StringValue("boom")

\* the message creator that built a document
Composer(doc) == IF "Host" \in DOMAIN doc THEN DefaultCreator ELSE CustomCreator

\* C12 as stated: every Fire call builds its document with the message
\* creator the hook held when Fire was called: the one installed last before
\* the call, the default one if none had been installed.
C12_DocumentByCreatorAtFire ==
    \A i \in 1..Len(writes) :
        Composer(writes[i].doc) = calls[writes[i].call].messageCreator

\* C12 as amended: every document is built with the message creator the hook
\* holds at the moment syncFireFunc composes it, which in an asynchronous
\* hook lies in the goroutine, after Fire has returned.
C12_DocumentByCreatorAtBuild ==
    [][ /\ \A i \in (Len(writes) + 1)..Len(writes') :
            /\ Composer(writes'[i].doc) = hooks[ret.hook].messageCreator
            /\ Asynchronous => calls[writes'[i].call].returned
        /\ \A i \in 1..Len(writes) : writes'[i].doc = writes[i].doc ]_vars

\* C12's case: a Fire call made after the caller's message creator was
\* installed has built its document with it
C12_Witness ==
    \E i \in 1..Len(writes) :
        /\ calls[writes[i].call].messageCreator = CustomCreator
        /\ Composer(writes[i].doc) = CustomCreator
        /\ hooks[ret.hook].messageCreator = CustomCreator

----------------------------------------------------------------------------
(* Further properties of the hook in use, checked under Spec *)

\* C13: no operation of the hook changes what Levels() returns: after any
\* sequence of Fire, Cancel, SetMessageCreator, GetHost and Levels calls it is
\* the slice the constructor computed.
C13_LevelsNeverChange ==
    [][ /\ Levels(ret.hook)' = Levels(ret.hook)
        /\ Levels(ret.hook)' = local.levels ]_vars

\* C13's case: a Fire call has run to its end, Cancel() has been called and
\* the caller's message creator installed, and Levels() is what the
\* constructor computed for the threshold Warn
C13_Witness ==
    /\ \E k \in 1..Len(calls) : calls[k].at = "done"
    /\ cancelled
    /\ hooks[ret.hook].messageCreator = CustomCreator
    /\ local.level = WarnLevel
    /\ Levels(ret.hook) = <<PanicLevel, FatalLevel, ErrorLevel, WarnLevel>>

\* C14: in a synchronous hook whose caller makes its Fire calls one after
\* another, the backend sees the writes in the order of the calls: the write
\* of a call is issued and answered before the call returns, hence before the
\* write of the next call is issued.
C14_SyncWritesInCallOrder ==
    Synchronous =>
        /\ \A i, j \in 1..Len(writes) :
            i < j =>
                /\ writes[i].call < writes[j].call
                /\ writes[i].err # "pending"
                /\ calls[writes[i].call].returned
        /\ \A k \in 1..Len(calls) :
            /\ calls[k].returned => \A i \in WritesOf(k) : writes[i].err # "pending"
            /\ ~calls[k].returned => k = Len(calls)

\* C14's case: a synchronous hook has served two Fire calls, and the write of
\* the first was answered before the write of the second was issued
C14_Witness ==
    /\ Synchronous
    /\ Len(writes) = 2
    /\ writes[1].call = 1
    /\ writes[2].call = 2
    /\ writes[1].err \in WriteErrors
    /\ writes[2].err = "pending"

----------------------------------------------------------------------------
(* Further properties of the records and the documents, checked under SpecRecords *)

\* the names of the levels, in upper case, by ordinal
UpperCaseNames == <<"PANIC", "FATAL", "ERROR", "WARNING", "INFO", "DEBUG">>

\* the fields of a record as a document is to carry them: an error value
\* under "error" as its message, everything else as it is
FieldsAsText(data) ==
    [data EXCEPT !.error = IF @.type = "error" THEN StringValue(@.val) ELSE @]

\* C15: for a record of any level, the document of the default message
\* creator has Host = the hook's host, Message = the record's message, Data =
\* the record's fields with an error under "error" as text, and Level = the
\* level's name in upper case.
C15_DefaultDocument ==
    \A i \in 1..Len(writes) :
        LET doc == writes[i].doc
            given == calls[writes[i].call].given
        IN  Composer(doc) = DefaultCreator =>
                /\ doc.Host = GetHost(ret.hook)
                /\ doc.Host = local.host
                /\ doc.Message = given.Message
                /\ doc.Data = FieldsAsText(given.Data)
                /\ given.Level \in PanicLevel..DebugLevel
                /\ doc.Level = UpperCaseNames[given.Level + 1]

\* C15's case: the default message creator built the document of an Info
\* record that held an error: Level is "INFO", Host the hook's host, Data
\* holds the error's message
C15_Witness ==
    \E i \in 1..Len(writes) :
        /\ calls[writes[i].call].given = Entry(InfoLevel, "m", ErrorValue("boom"))
        /\ Composer(writes[i].doc) = DefaultCreator
        /\ writes[i].doc.Level = "INFO"
        /\ writes[i].doc.Host = "host1"
        /\ writes[i].doc.Message = "m"
        /\ writes[i].doc.Data.error = StringValue("boom")

----------------------------------------------------------------------------
(* A further property of construction, checked under SpecNew *)

\* C16: the create request of a construction is issued for the index name
\* the existence query was issued for, whatever the index function.
C16_CreateForNameQueried ==
    \A i \in CreateRequests : requests[i].index = requests[1].index

\* C16's failing case: the index function's result changed between the
\* existence query and the create request, the creation was acknowledged and
\* the hook returned, with the index queried still absent
C16_Witness ==
    /\ Returns
    /\ ret.hook # 0
    /\ local.indexFunc.kind = "dynamic"
    /\ Len(requests) = 2
    /\ requests[1] = [op |-> "IndexExists", index |-> "logs-1", err |-> NoErr, ok |-> FALSE]
    /\ requests[2] = [op |-> "CreateIndex", index |-> "logs-2", err |-> NoErr, ok |-> TRUE]

----------------------------------------------------------------------------
(* A property of progress, checked under SpecFair *)

\* the hook in use under the operations that bear on its writes, with
\* goroutines scheduled fairly: a syncFireFunc that can run does run
NextFair ==
    \/ Fire
    \/ syncFireFunc
    \/ Do
    \/ Cancel

SpecFair == Init /\ [][NextFair]_vars /\ WF_vars(syncFireFunc)

\* C17: at every moment each Fire call has issued at most one write, exactly
\* one once its syncFireFunc has reached the write, which in a synchronous
\* hook is before Fire returns; a write that failed is not issued again, so
\* there are never more writes than calls. Under fair scheduling every Fire
\* call, the asynchronous included, comes to have issued exactly one write.
C17_OneWritePerFire ==
    /\ [](/\ Len(writes) <= Len(calls)
          /\ \A k \in 1..Len(calls) :
              /\ Cardinality(WritesOf(k)) <= 1
              /\ calls[k].at # "syncFireFunc" => Cardinality(WritesOf(k)) = 1
              /\ (Synchronous /\ calls[k].returned) => Cardinality(WritesOf(k)) = 1)
    /\ \A k \in 1..MaxFires :
          (Len(calls) >= k) ~> [](Len(calls) >= k /\ Cardinality(WritesOf(k)) = 1)

\* C17's case: the write of an asynchronous Fire call failed, the goroutine
\* has ended, and that write is the only one of the call
C17_Witness ==
    /\ Asynchronous
    /\ \E k \in 1..Len(calls) :
        /\ calls[k].at = "done"
        /\ Cardinality(WritesOf(k)) = 1
        /\ \A i \in WritesOf(k) : writes[i].err \in WriteErrors

----------------------------------------------------------------------------
(* A further property of the index of a write, checked under SpecWithFunc *)

\* C18: the index name of a write is never a name kept from before: the step
\* of syncFireFunc that issues the write of a Fire call, in the caller or in
\* the goroutine, invokes the index function and writes to the name it
\* returns then, and the name of a write issued is not changed afterwards.
C18_IndexNeverCached ==
    [][ /\ \A i \in (Len(writes) + 1)..Len(writes') :
            /\ calls[writes'[i].call].at = "syncFireFunc"
            /\ writes'[i].index = Call(hooks[ret.hook].index)
        /\ \A i \in 1..Len(writes) : writes'[i].index = writes[i].index ]_vars

\* C18's case: a write went to another name than the one construction
\* queried, and the write of a later Fire call to another name than that of
\* the earlier call
C18_Witness ==
    \E i, j \in 1..Len(writes) :
        /\ writes[i].call < writes[j].call
        /\ writes[i].index # requests[1].index
        /\ writes[j].index # writes[i].index

----------------------------------------------------------------------------
(* Further properties of the hook in use, checked under Spec *)

\* the writes the backend has not answered
Outstanding == {i \in 1..Len(writes) : writes[i].err = "pending"}

\* C19: in an asynchronous hook Fire does not wait for the backend: every
\* Fire call made has returned, whether or not its write or an earlier one
\* has been issued or answered, and the caller can make its next Fire call
\* however many writes are outstanding.
C19_AsyncFireDoesNotWait ==
    Asynchronous =>
        /\ \A k \in 1..Len(calls) :
            /\ calls[k].returned
            /\ calls[k].at # "done" => calls[k].err = NoErr
        /\ CallerIdle
        /\ Len(calls) < MaxFires => ENABLED Fire

\* C19's case: two Fire calls of an asynchronous hook have returned, the
\* second made with the first one's goroutine still running, and the writes
\* of both are outstanding at once
C19_Witness ==
    /\ Asynchronous
    /\ Len(calls) >= 2
    /\ \A k \in 1..Len(calls) : calls[k].returned /\ calls[k].at = "Do"
    /\ Cardinality(Outstanding) >= 2

----------------------------------------------------------------------------
(* A further property of the records, checked under SpecRecords *)

\* C20: of the record given to it, Fire changes nothing but the value under
\* "error", and that only where the record held an error there, which becomes
\* its message; the level, the message, the time and every other field stay
\* as given, as does a value under "error" that is no error. The steps of
\* Fire leave the hook's host, levels, message creator and index function,
\* the context and what the index function returns as they are.
C20_FireChangesErrorFieldOnly ==
    [][ /\ (calls' # calls \/ writes' # writes) =>
            /\ hooks' = hooks
            /\ ctxDone' = ctxDone
            /\ cancelled' = cancelled
            /\ current' = current
        /\ \A k \in 1..Len(calls') :
            LET given == calls'[k].given
                entry == calls'[k].entry
            IN  /\ k <= Len(calls) => given = calls[k].given
                /\ entry.Level = given.Level
                /\ entry.Message = given.Message
                /\ entry.Time = given.Time
                /\ DOMAIN entry.Data = DOMAIN given.Data
                /\ \A key \in DOMAIN given.Data \ {"error"} :
                       entry.Data[key] = given.Data[key]
                /\ given.Data.error.type # "error" =>
                       entry.Data.error = given.Data.error
                /\ entry.Data.error # given.Data.error =>
                       entry.Data.error = StringValue(given.Data.error.val) ]_vars

\* C20's case: a Fire call given a record with an error under "error" has run
\* to its end, and the record now holds the error's message there and is
\* otherwise as given
C20_Witness ==
    \E k \in 1..Len(calls) :
        /\ calls[k].at = "done"
        /\ calls[k].given = Entry(WarnLevel, "m", ErrorValue("boom"))
        /\ calls[k].entry = Entry(WarnLevel, "m", StringValue("boom"))

====
